---- MODULE Spec2Model ----
(***************************************************************************)
(* LocalDockerRunner (tfx/components/infra_validator/model_server_runners/ *)
(* local_docker_runner.py): the runner object, the docker engine it talks  *)
(* to, the wall clock, and the single caller thread that invokes Start,    *)
(* WaitUntilRunning, GetEndpoint and Stop one call at a time.              *)
(***************************************************************************)
EXTENDS Integers, Sequences, FiniteSets, TLC

\* ---------------------------------------------------------------- bounds
\* Number of API calls the caller makes on the runner.
MaxCalls == 4
\* Deadlines handed to WaitUntilRunning are timestamps in 0..MaxDeadline.
MaxDeadline == 3
\* Extra seconds a reload() or a sleep() may take beyond its nominal time.
MaxJitter == 1
\* Number of distinct host ports the OS may hand out.
NumPorts == 2

\* Serving model paths given to the constructor have at most this many characters.
MaxPathLen == 5

\* ------------------------------------------------------ program constants
POLLING_INTERVAL_SEC == 1

\* ------------------------------------------------------------ value sets
None == [kind |-> "None"]

Container(id) == [kind |-> "Container", id |-> id]

Ports == 1..NumPorts

BinaryKinds == {"TensorFlowServing", "UnsupportedBinary"}

\* Statuses the docker engine reports for a container (comment at lines 182-184).
Statuses == {"created", "restarting", "running", "removing", "paused",
             "exited", "dead"}

\* What one `reload(); status` attempt can yield: a status, docker_errors.NotFound,
\* or another engine error.
Observations == Statuses \cup {"NotFound", "APIError"}

VARIABLES
  binary_kind,    \* self._binary_kind (its type)
  container,      \* self._container
  endpoint,       \* self._endpoint
  docker_closed,  \* whether self._docker.close() has been called
  engine_runs,    \* run requests received by the engine, in order, each with
                  \* the os.path.exists probe Start made before it
  engine_stops,   \* number of stop requests received by the engine
  now,            \* time.time()
  pc,             \* position of the caller: "idle" or inside WaitUntilRunning
  deadline,       \* argument of the current/last WaitUntilRunning call
  observed,       \* what each reload of the current/last WaitUntilRunning yielded
  sleeps,         \* time.sleep calls of the current/last WaitUntilRunning
  op,             \* the current/last operation called
  result,         \* its outcome: "ok", an exception name, or "pending"
  returned,       \* value returned by the last successful GetEndpoint
  ncalls,         \* number of operations called so far
  start_called,   \* whether Start() has ever been called
  serving_model_path, \* path_utils.serving_model_path(model.uri), a string
  spec_model_name,    \* serving_spec.model_name, a string
  model_base_path,    \* self._model_base_path
  model_name,         \* self._model_name
  model_version,      \* self._model_version
  ctor,           \* outcome of __init__: "new" before it ran, "ok", or the raise
  version_path    \* last value read from the _model_version_path property

\* The state the four public methods work on.
runnervars == <<binary_kind, container, endpoint, docker_closed, engine_runs,
                engine_stops, now, pc, deadline, observed, sleeps, op, result,
                returned, ncalls, start_called>>

\* What __init__ reads and the fields it derives from the model path.
modelvars == <<serving_model_path, spec_model_name, model_base_path, model_name,
               model_version, ctor, version_path>>

vars == <<runnervars, modelvars>>

\* ------------------------------------------------------------- helpers
\* 'localhost:{}'.format(host_port)
Endpoint(host_port) == [kind |-> "str", host |-> "localhost", port |-> host_port]

\* isinstance(self._binary_kind, binary_kinds.TensorFlowServing)
IsTensorFlowServing(kind) == kind = "TensorFlowServing"

\* assert self._container is None
StartPreconditionAlways == TRUE

StartPrecondition == container = None

\* assert self._endpoint is not None
GetEndpointPreconditionAlways == TRUE

GetEndpointPrecondition == endpoint # None

\* if self._container:
HoldsContainerAlways == TRUE

HoldsContainer == container # None

LoopCondInclusive(t, d) == t <= d

\* while time.time() < deadline
LoopCondEarly(t, d) == t + POLLING_INTERVAL_SEC < d

LoopCond(t, d) == t < d

\* The status dispatch of the polling loop.
ClassifyRetryRestarting(status) ==
  IF status \in {"created", "restarting"} THEN "retry"
  ELSE IF status = "running" THEN "return"
  ELSE "abort"

ClassifyPausedReady(status) ==
  IF status = "created" THEN "retry"
  ELSE IF status \in {"running", "paused"} THEN "return"
  ELSE "abort"

Classify(status) ==
  IF status = "created" THEN "retry"
  ELSE IF status = "running" THEN "return"
  ELSE "abort"

\* ------------------------------------------------------ strings and paths
\* A string is a sequence of characters. A character is written as a
\* one-character string where Latin-1 has it ("7", "m", "²") and by its code
\* point otherwise: "U+0663" is the one character ARABIC-INDIC DIGIT THREE.
Sep == "/"

\* The digits str() writes.
DigitChars == <<"0", "1", "2", "3", "4", "5", "6", "7", "8", "9">>

\* Decimal digits of other scripts (Unicode category Nd), zero to nine.
ArabicIndicDigits ==
  <<"U+0660", "U+0661", "U+0662", "U+0663", "U+0664",
    "U+0665", "U+0666", "U+0667", "U+0668", "U+0669">>

DevanagariDigits ==
  <<"U+0966", "U+0967", "U+0968", "U+0969", "U+096A",
    "U+096B", "U+096C", "U+096D", "U+096E", "U+096F">>

FullwidthDigits ==
  <<"U+FF10", "U+FF11", "U+FF12", "U+FF13", "U+FF14",
    "U+FF15", "U+FF16", "U+FF17", "U+FF18", "U+FF19">>

\* The decimal digits the model knows, by script; Unicode has more scripts,
\* each with the same behaviour.
DecimalScripts ==
  <<DigitChars, ArabicIndicDigits, DevanagariDigits, FullwidthDigits>>

\* Digits that are not decimal digits: the superscripts one, two and three and
\* the circled digits one to nine (Unicode has more of the kind).
NonDecimalDigitChars ==
  {"¹", "²", "³",
   "U+2460", "U+2461", "U+2462", "U+2463", "U+2464",
   "U+2465", "U+2466", "U+2467", "U+2468"}

\* Characters of the paths the constructor is tried on: the separator, a
\* letter, two ASCII digits, a superscript digit and an Arabic-Indic digit.
PathChars == {"/", "m", "0", "1", "²", "U+0663"}

PathStrings == UNION {[1..k -> PathChars] : k \in 0..MaxPathLen}

\* Model names a ServingSpec may carry.
ConfiguredNames == {<<>>, <<"m">>, <<"m", "m">>}

\* A character int() reads as a digit: a decimal digit of any script.
IsDecimalChar(c) ==
  \E s \in 1..Len(DecimalScripts) :
    \E d \in 1..Len(DecimalScripts[s]) : DecimalScripts[s][d] = c

\* A character str.isdigit() accepts: a decimal digit or another digit.
IsDigitChar(c) == IsDecimalChar(c) \/ c \in NonDecimalDigitChars

\* The value int() gives a decimal digit.
DigitValue(c) ==
  (CHOOSE d \in 1..Len(DigitChars) :
     \E s \in 1..Len(DecimalScripts) : DecimalScripts[s][d] = c) - 1

\* str.isdigit(): non-empty and every character a digit.
IsDigitOrEmpty(str) == \A i \in 1..Len(str) : IsDigitChar(str[i])

IsDigit(str) == Len(str) > 0 /\ \A i \in 1..Len(str) : IsDigitChar(str[i])

\* int(version) of a string of decimal digits.
RECURSIVE ParseInt(_)
ParseInt(str) ==
  IF str = <<>> THEN 0
  ELSE 10 * ParseInt(SubSeq(str, 1, Len(str) - 1)) + DigitValue(str[Len(str)])

\* str(n) of a non-negative integer.
RECURSIVE Str(_)
Str(n) ==
  IF n < 10 THEN <<DigitChars[n + 1]>>
  ELSE Str(n \div 10) \o <<DigitChars[(n % 10) + 1]>>

\* p.rfind('/') + 1: the position of the last separator, 0 when there is none.
RFindSep(p) ==
  IF \E i \in 1..Len(p) : p[i] = Sep
    THEN CHOOSE i \in 1..Len(p) : p[i] = Sep /\ \A k \in (i + 1)..Len(p) : p[k] # Sep
    ELSE 0

AllSeps(p) == \A i \in 1..Len(p) : p[i] = Sep

\* head.rstrip('/')
RECURSIVE RStripSep(_)
RStripSep(p) ==
  IF p # <<>> /\ p[Len(p)] = Sep THEN RStripSep(SubSeq(p, 1, Len(p) - 1)) ELSE p

\* os.path.split (posixpath): <<head, tail>>, the head without its trailing
\* separators unless it consists of separators only.
OsPathSplit(p) ==
  LET i == RFindSep(p)
      head == SubSeq(p, 1, i)
      tail == SubSeq(p, i + 1, Len(p))
  IN  <<IF head # <<>> /\ ~AllSeps(head) THEN RStripSep(head) ELSE head, tail>>

\* os.path.join (posixpath) of two components.
OsPathJoin(a, b) ==
  IF b # <<>> /\ b[1] = Sep THEN b
  ELSE IF a = <<>> \/ a[Len(a)] = Sep THEN a \o b
  ELSE a \o <<Sep>> \o b

\* _parse_model_path: the triple, or ok = FALSE and the ValueError it raises.
\* A version that fails isdigit() gets the directory-structure message; one
\* that passes isdigit() with a digit int() does not read ("²") makes
\* int(version) raise its own ValueError, "invalid literal for int()".
ParseModelPath(path) ==
  LET first == OsPathSplit(path)
      version == first[2]
      second == OsPathSplit(first[1])
  IN  IF ~IsDigit(version)
        THEN [ok |-> FALSE, raised |-> "ValueError_model_path"]
      ELSE IF \E i \in 1..Len(version) : ~IsDecimalChar(version[i])
        THEN [ok |-> FALSE, raised |-> "ValueError_invalid_literal"]
      ELSE [ok |-> TRUE, base_path |-> second[1], model_name |-> second[2],
            version |-> ParseInt(version)]

\* `model_name != serving_spec.model_name` does not hold.
NamesMatchAlways(parsed_name, configured_name) == TRUE

NamesMatch(parsed_name, configured_name) == parsed_name = configured_name

\* The _model_path property.
ModelPath == OsPathJoin(model_base_path, model_name)

\* The _model_version_path property.
ModelVersionPath ==
  OsPathJoin(OsPathJoin(model_base_path, model_name), Str(model_version))

\* A string field that holds no string (yet): no sequence of characters.
NoString == <<"None">>

\* The two MakeDockerRunParams calls of Start: `mode` is the keyword the path
\* is passed under, `path` its value.
MakeDockerRunParamsSwapped(host_port, is_local_model) ==
  IF is_local_model
    THEN [mode |-> "model_base_path", host_port |-> host_port,
          path |-> model_base_path]
    ELSE [mode |-> "host_model_path", host_port |-> host_port,
          path |-> ModelPath]

MakeDockerRunParams(host_port, is_local_model) ==
  IF is_local_model
    THEN [mode |-> "host_model_path", host_port |-> host_port,
          path |-> ModelPath]
    ELSE [mode |-> "model_base_path", host_port |-> host_port,
          path |-> model_base_path]

\* The serving path and configured name of the runner whose calls Spec follows.
RunnerServingPath == <<"b", "/", "m", "/", "7">>

RunnerConfiguredName == <<"m">>

\* ---------------------------------------------------------------- Init
\* The state __init__ leaves behind when it succeeds.
Init ==
  /\ binary_kind \in BinaryKinds
  /\ container = None
  /\ endpoint = None
  /\ docker_closed = FALSE
  /\ engine_runs = <<>>
  /\ engine_stops = 0
  /\ now = 0
  /\ pc = "idle"
  /\ deadline = 0
  /\ observed = <<>>
  /\ sleeps = 0
  /\ op = "none"
  /\ result = "none"
  /\ returned = None
  /\ ncalls = 0
  /\ start_called = FALSE
  /\ serving_model_path = RunnerServingPath
  /\ spec_model_name = RunnerConfiguredName
  /\ model_base_path = ParseModelPath(RunnerServingPath).base_path
  /\ model_name = ParseModelPath(RunnerServingPath).model_name
  /\ model_version = ParseModelPath(RunnerServingPath).version
  /\ ctor = "ok"
  /\ version_path = NoString

\* The caller begins a new call.
Call(name) ==
  /\ ctor = "ok"
  /\ pc = "idle"
  /\ ncalls < MaxCalls
  /\ ncalls' = ncalls + 1
  /\ op' = name

\* ------------------------------------------------------------- actions
GetEndpoint ==
  /\ Call("GetEndpoint")
  /\ IF GetEndpointPrecondition
       THEN result' = "ok" /\ returned' = endpoint
       ELSE result' = "AssertionError" /\ UNCHANGED returned
  /\ UNCHANGED modelvars
  /\ UNCHANGED <<binary_kind, container, endpoint, docker_closed, engine_runs,
                 engine_stops, now, pc, deadline, observed, sleeps,
                 start_called>>

Start ==
  /\ Call("Start")
  /\ start_called' = TRUE
  /\ IF ~StartPrecondition
       THEN /\ result' = "AssertionError"
            /\ UNCHANGED <<container, endpoint, engine_runs>>
       ELSE \E host_port \in Ports, is_local_model \in BOOLEAN, run_ok \in BOOLEAN :
            /\ endpoint' = Endpoint(host_port)
            /\ IF IsTensorFlowServing(binary_kind)
                 THEN /\ engine_runs' = Append(engine_runs,
                            [params |-> MakeDockerRunParams(host_port, is_local_model),
                             probe |-> [path |-> ModelVersionPath,
                                        exists |-> is_local_model],
                             ok |-> run_ok])
                      /\ IF run_ok
                           THEN /\ container' = Container(Len(engine_runs) + 1)
                                /\ result' = "ok"
                           ELSE /\ container' = container
                                /\ result' = "APIError"
                 ELSE /\ result' = "NotImplementedError"
                      /\ UNCHANGED <<container, engine_runs>>
  /\ UNCHANGED modelvars
  /\ UNCHANGED <<binary_kind, docker_closed, engine_stops, now, pc, deadline,
                 observed, sleeps, returned>>

\* Entry of WaitUntilRunning: the assert, then the loop.
WaitUntilRunning ==
  /\ Call("WaitUntilRunning")
  /\ \E d \in 0..MaxDeadline : deadline' = d
  /\ observed' = <<>>
  /\ sleeps' = 0
  /\ IF container # None
       THEN pc' = "loop" /\ result' = "pending"
       ELSE pc' = "idle" /\ result' = "AssertionError"
  /\ UNCHANGED modelvars
  /\ UNCHANGED <<binary_kind, container, endpoint, docker_closed, engine_runs,
                 engine_stops, now, returned, start_called>>

\* The loop test without the raise behind it: past the deadline the call
\* neither polls nor fails.
WaitLoopTestSpin ==
  /\ pc = "loop"
  /\ IF LoopCond(now, deadline)
       THEN pc' = "reload" /\ UNCHANGED result
       ELSE UNCHANGED <<pc, result>>
  /\ UNCHANGED modelvars
  /\ UNCHANGED <<binary_kind, container, endpoint, docker_closed, engine_runs,
                 engine_stops, now, deadline, observed, sleeps, op, returned,
                 ncalls, start_called>>

\* `while time.time() < deadline`, and the raise after the loop.
WaitLoopTest ==
  /\ pc = "loop"
  /\ IF LoopCond(now, deadline)
       THEN pc' = "reload" /\ UNCHANGED result
       ELSE pc' = "idle" /\ result' = "DeadlineExceeded"
  /\ UNCHANGED modelvars
  /\ UNCHANGED <<binary_kind, container, endpoint, docker_closed, engine_runs,
                 engine_stops, now, deadline, observed, sleeps, op, returned,
                 ncalls, start_called>>

WaitReloadCatchAll ==
  /\ pc = "reload"
  /\ \E o \in Observations, j \in 0..MaxJitter :
       /\ now' = now + j
       /\ observed' = Append(observed, o)
       /\ IF o \in {"NotFound", "APIError"}
            THEN pc' = "idle" /\ result' = "JobAborted"
          ELSE IF Classify(o) = "retry"
            THEN pc' = "sleep" /\ UNCHANGED result
          ELSE IF Classify(o) = "return"
            THEN pc' = "idle" /\ result' = "ok"
          ELSE pc' = "idle" /\ result' = "JobAborted"
  /\ UNCHANGED modelvars
  /\ UNCHANGED <<binary_kind, container, endpoint, docker_closed, engine_runs,
                 engine_stops, deadline, sleeps, op, returned, ncalls,
                 start_called>>

\* The try block and the status dispatch after it.
WaitReload ==
  /\ pc = "reload"
  /\ \E o \in Observations, j \in 0..MaxJitter :
       /\ now' = now + j
       /\ observed' = Append(observed, o)
       /\ IF o = "NotFound"
            THEN pc' = "idle" /\ result' = "JobAborted"
          ELSE IF o = "APIError"
            THEN pc' = "idle" /\ result' = "APIError"
          ELSE IF Classify(o) = "retry"
            THEN pc' = "sleep" /\ UNCHANGED result
          ELSE IF Classify(o) = "return"
            THEN pc' = "idle" /\ result' = "ok"
          ELSE pc' = "idle" /\ result' = "JobAborted"
  /\ UNCHANGED modelvars
  /\ UNCHANGED <<binary_kind, container, endpoint, docker_closed, engine_runs,
                 engine_stops, deadline, sleeps, op, returned, ncalls,
                 start_called>>

\* time.sleep(_POLLING_INTERVAL_SEC); continue
WaitSleep ==
  /\ pc = "sleep"
  /\ \E j \in 0..MaxJitter : now' = now + POLLING_INTERVAL_SEC + j
  /\ sleeps' = sleeps + 1
  /\ pc' = "loop"
  /\ UNCHANGED modelvars
  /\ UNCHANGED <<binary_kind, container, endpoint, docker_closed, engine_runs,
                 engine_stops, deadline, observed, op, result, returned, ncalls,
                 start_called>>

StopNulling ==
  /\ Call("Stop")
  /\ IF HoldsContainer
       THEN \E stop_ok \in BOOLEAN :
            /\ engine_stops' = engine_stops + 1
            /\ IF stop_ok
                 THEN docker_closed' = TRUE /\ result' = "ok"
                 ELSE UNCHANGED docker_closed /\ result' = "APIError"
       ELSE /\ docker_closed' = TRUE
            /\ result' = "ok"
            /\ UNCHANGED engine_stops
  /\ container' = None
  /\ UNCHANGED modelvars
  /\ UNCHANGED <<binary_kind, endpoint, engine_runs, now, pc, deadline,
                 observed, sleeps, returned, start_called>>

Stop ==
  /\ Call("Stop")
  /\ IF HoldsContainer
       THEN \E stop_ok \in BOOLEAN :
            /\ engine_stops' = engine_stops + 1
            /\ IF stop_ok
                 THEN docker_closed' = TRUE /\ result' = "ok"
                 ELSE UNCHANGED docker_closed /\ result' = "APIError"
       ELSE /\ docker_closed' = TRUE
            /\ result' = "ok"
            /\ UNCHANGED engine_stops
  /\ UNCHANGED modelvars
  /\ UNCHANGED <<binary_kind, container, endpoint, engine_runs, now, pc,
                 deadline, observed, sleeps, returned, start_called>>

\* Time passing between two calls of the caller. The clock is followed up to
\* the largest deadline: beyond it every deadline has passed already.
Tick ==
  /\ pc = "idle"
  /\ now < MaxDeadline
  /\ now' = now + 1
  /\ UNCHANGED modelvars
  /\ UNCHANGED <<binary_kind, container, endpoint, docker_closed, engine_runs,
                 engine_stops, pc, deadline, observed, sleeps, op, result,
                 returned, ncalls, start_called>>

Next ==
  \/ Start
  \/ GetEndpoint
  \/ WaitUntilRunning
  \/ WaitLoopTest
  \/ WaitReload
  \/ WaitSleep
  \/ Stop
  \/ Tick

Spec == Init /\ [][Next]_vars

\* A caller that starts the runner once and then waits for it, any number of
\* times. The
\* calling thread keeps running: a WaitUntilRunning call that has been entered
\* takes its next step (the loop test, the reload, which returns, and the
\* sleep, which ends).
FirstStart == ncalls = 0 /\ Start

WaitNext ==
  \/ FirstStart
  \/ WaitUntilRunning
  \/ WaitLoopTest
  \/ WaitReload
  \/ WaitSleep
  \/ Tick

WaitFairSpec ==
  /\ Init
  /\ [][WaitNext]_vars
  /\ WF_vars(WaitLoopTest)
  /\ WF_vars(WaitReload)
  /\ WF_vars(WaitSleep)

\* ------------------------------------------------------------ construction
\* Before __init__ runs: its arguments are chosen, no field is set.
PathInit ==
  /\ binary_kind \in BinaryKinds
  /\ container = None
  /\ endpoint = None
  /\ docker_closed = FALSE
  /\ engine_runs = <<>>
  /\ engine_stops = 0
  /\ now = 0
  /\ pc = "idle"
  /\ deadline = 0
  /\ observed = <<>>
  /\ sleeps = 0
  /\ op = "none"
  /\ result = "none"
  /\ returned = None
  /\ ncalls = 0
  /\ start_called = FALSE
  /\ serving_model_path \in PathStrings
  /\ spec_model_name \in ConfiguredNames
  /\ model_base_path = NoString
  /\ model_name = NoString
  /\ model_version = None
  /\ ctor = "new"
  /\ version_path = NoString

\* __init__: parse the path, compare the names, set the fields. All errors
\* are ValueError in the source; the suffix tells which raise it was.
Construct ==
  /\ ctor = "new"
  /\ LET parsed == ParseModelPath(serving_model_path)
     IN  IF ~parsed.ok
           THEN /\ ctor' = parsed.raised
                /\ UNCHANGED <<model_base_path, model_name, model_version>>
         ELSE IF ~NamesMatch(parsed.model_name, spec_model_name)
           THEN /\ ctor' = "ValueError_model_name"
                /\ UNCHANGED <<model_base_path, model_name, model_version>>
         ELSE /\ ctor' = "ok"
              /\ model_base_path' = parsed.base_path
              /\ model_name' = parsed.model_name
              /\ model_version' = parsed.version
  /\ UNCHANGED <<serving_model_path, spec_model_name, version_path>>
  /\ UNCHANGED runnervars

\* A read of the _model_version_path property of a constructed runner.
ReadModelVersionPath ==
  /\ ctor = "ok"
  /\ version_path = NoString
  /\ version_path' = ModelVersionPath
  /\ UNCHANGED <<serving_model_path, spec_model_name, model_base_path,
                 model_name, model_version, ctor>>
  /\ UNCHANGED runnervars

PathNext ==
  \/ Construct
  \/ ReadModelVersionPath

PathSpec == PathInit /\ [][PathNext]_vars

\* ------------------------------------------------------------ properties
\* A WaitUntilRunning call that passed its precondition has finished.
WaitDone == op = "WaitUntilRunning" /\ pc = "idle" /\ result # "AssertionError"

\* The caller is inside WaitUntilRunning, or its last call was one that polled.
InWait == op = "WaitUntilRunning" /\ result # "AssertionError"

AllCreated(s) == \A i \in 1..Len(s) : s[i] = "created"

NumCreated(s) == Cardinality({i \in 1..Len(s) : s[i] = "created"})

\* An observation the claim calls terminal: not found, or a status other than
\* created and running.
IsAbortObservation(o) == o = "NotFound" \/ o \in Statuses \ {"created", "running"}

\* This step is a call of operation `name`, from entry to exit.
Called(name) == pc = "idle" /\ ncalls' = ncalls + 1 /\ op' = name

\* C1: WaitUntilRunning returns normally if and only if one of the statuses
\* refreshed during that call was "running"; while the call is still polling no
\* "running" has been observed, and no other observation ends in a normal return.
C1_SuccessIffRunning ==
  InWait =>
    /\ (pc = "idle" => (result = "ok" <=> \E i \in 1..Len(observed) : observed[i] = "running"))
    /\ (pc # "idle" => \A i \in 1..Len(observed) : observed[i] # "running")
    /\ (result = "ok" => observed[Len(observed)] = "running")

C1_Witness ==
  /\ WaitDone /\ result = "ok"
  /\ Len(observed) = 2 /\ observed[1] = "created" /\ observed[2] = "running"

\* C2: once a refresh yields not-found or a status other than created/running,
\* the call has failed with JobAborted at that very observation: it is the last
\* refresh of the call, every earlier one was "created", and the only sleeps are
\* the ones taken for those earlier "created" observations.
C2_AbortImmediately ==
  InWait =>
    \A i \in 1..Len(observed) :
      IsAbortObservation(observed[i]) =>
        /\ pc = "idle"
        /\ result = "JobAborted"
        /\ i = Len(observed)
        /\ AllCreated(SubSeq(observed, 1, i - 1))
        /\ sleeps = i - 1

C2_Witness ==
  /\ WaitDone /\ result = "JobAborted"
  /\ observed = <<"created", "exited">>
  /\ sleeps = 1

\* C3: DeadlineExceeded is raised only when the clock is at or after the
\* deadline, and a call that observed nothing but "created" (and ended) ended
\* with DeadlineExceeded.
C3_DeadlineExceeded ==
  [][ /\ (pc = "loop" /\ result' = "DeadlineExceeded")
           => (now >= deadline /\ now' >= deadline')
      /\ (WaitDone' /\ AllCreated(observed')) => result' = "DeadlineExceeded"
    ]_vars

C3_Witness ==
  /\ WaitDone /\ result = "DeadlineExceeded"
  /\ Len(observed) >= 2 /\ AllCreated(observed)
  /\ now >= deadline

\* C4: a call whose refreshes were k "created" followed by "running" returned
\* success after exactly k sleeps and k+1 refreshes; at every moment of a call
\* the sleeps taken are one per "created" observation (the one for the latest
\* "created" still pending while the caller is about to sleep) and none else.
C4_SleepsPerCreated ==
  InWait =>
    /\ sleeps = NumCreated(observed) - (IF pc = "sleep" THEN 1 ELSE 0)
    /\ \A k \in 0..Len(observed) :
         ( /\ Len(observed) = k + 1
           /\ AllCreated(SubSeq(observed, 1, k))
           /\ observed[k + 1] = "running" )
         => (pc = "idle" /\ result = "ok" /\ sleeps = k)

C4_Witness ==
  /\ WaitDone /\ result = "ok"
  /\ observed = <<"created", "created", "running">>
  /\ sleeps = 2

\* C5: after every execution of Stop(), whether or not the engine's stop
\* request raised, the engine client connection is closed.
C5_StopAlwaysCloses ==
  (op = "Stop" /\ pc = "idle") => docker_closed

\* C6: after a Start() that failed partway (run request raised, or unsupported
\* binary kind) the runner is Unstarted: no handle, no endpoint, and for an
\* unsupported binary kind no run request reached the engine.
C6_FailedStartLeavesUnstarted ==
  (op = "Start" /\ result \in {"APIError", "NotImplementedError"}) =>
    /\ container = None
    /\ endpoint = None
    /\ (result = "NotImplementedError" => engine_runs = <<>>)

\* C7 as stated: after Stop() completes on a runner that held a handle, the
\* handle field is None as on a freshly constructed runner.
C7_StopNullsHandle ==
  [][ (Called("Stop") /\ container # None /\ result' = "ok") => container' = None ]_vars

\* C7 amended: Stop() leaves the handle field as it was, so a runner that held
\* a handle still holds the same one after Stop(), whatever Stop()'s outcome.
C7_StopKeepsHandle ==
  [][ (Called("Stop") /\ container # None)
        => (container' = container /\ container' # None) ]_vars

C7_Witness ==
  /\ op = "Stop" /\ result = "ok" /\ docker_closed
  /\ engine_stops = 1
  /\ container # None

\* C8: Start() on a runner that already holds a handle is an assertion failure,
\* issues no run request and changes neither the handle nor the endpoint.
C8_SecondStartRejected ==
  [][ (Called("Start") /\ container # None)
        => /\ result' = "AssertionError"
           /\ engine_runs' = engine_runs
           /\ container' = container
           /\ endpoint' = endpoint ]_vars

C8_Witness ==
  /\ op = "Start" /\ result = "AssertionError"
  /\ container # None /\ endpoint # None
  /\ Len(engine_runs) = 1

\* C9: GetEndpoint() on a runner on which Start() was never called is an
\* assertion failure, whatever WaitUntilRunning or Stop calls preceded it.
C9_GetEndpointBeforeStart ==
  [][ (Called("GetEndpoint") /\ ~start_called)
        => (result' = "AssertionError" /\ returned' = returned) ]_vars

C9_Witness ==
  /\ op = "GetEndpoint" /\ result = "AssertionError"
  /\ ~start_called
  /\ docker_closed
  /\ ncalls >= 3

\* C10: Stop() on a runner holding no handle raises nothing, sends no stop
\* request to the engine and closes the engine client.
C10_StopWithoutHandle ==
  [][ (Called("Stop") /\ container = None)
        => /\ result' = "ok"
           /\ engine_stops' = engine_stops
           /\ docker_closed' ]_vars

C10_Witness ==
  /\ op = "Stop" /\ result = "ok"
  /\ container = None
  /\ start_called
  /\ engine_stops = 0
  /\ docker_closed

\* C11: an engine error of the status refresh that is not the not-found signal
\* leaves WaitUntilRunning as that same error (not JobAborted, not
\* DeadlineExceeded, not a normal return), and it is the last thing the call
\* did: no refresh and no sleep follow it.
C11_EngineErrorPropagates ==
  InWait =>
    \A i \in 1..Len(observed) :
      observed[i] = "APIError" =>
        /\ pc = "idle"
        /\ result = "APIError"
        /\ i = Len(observed)
        /\ sleeps = NumCreated(SubSeq(observed, 1, i - 1))
        /\ sleeps = i - 1

C11_Witness ==
  /\ WaitDone /\ result = "APIError"
  /\ observed = <<"created", "APIError">>
  /\ sleeps = 1

\* The segment of a path after its last separator (the whole path when it has
\* none), read off the string itself.
LastSegment(p) ==
  LET starts == {i \in 1..(Len(p) + 1) :
                   /\ \A k \in i..Len(p) : p[k] # "/"
                   /\ (i = 1 \/ p[i - 1] = "/")}
  IN  SubSeq(p, CHOOSE i \in starts : TRUE, Len(p))

\* A numeral of a non-negative integer: a non-empty string of decimal digits.
IsNonNegativeInteger(str) ==
  /\ Len(str) > 0
  /\ \A i \in 1..Len(str) : IsDecimalChar(str[i])

\* The ValueErrors that path resolution raises.
PathValueErrors == {"ValueError_model_path", "ValueError_invalid_literal"}

\* A path written as base/name/version: at least two separators, none doubled
\* and none at the end.
HasServingForm(p) ==
  /\ Cardinality({i \in 1..Len(p) : p[i] = "/"}) >= 2
  /\ \A i \in 1..(Len(p) - 1) : ~(p[i] = "/" /\ p[i + 1] = "/")
  /\ p # <<>> /\ p[Len(p)] # "/"

\* C12: for a path base/name/version whose last segment is a digit string,
\* parsing it and joining base_path, model_name and str(version) again gives
\* the original path, and that path parses to the same components.
C12_RoundTrip ==
  ( /\ ctor = "ok"
    /\ version_path # NoString
    /\ HasServingForm(serving_model_path)
    /\ IsNonNegativeInteger(LastSegment(serving_model_path)) )
  => /\ version_path = serving_model_path
     /\ ParseModelPath(version_path) =
          [ok |-> TRUE, base_path |-> model_base_path,
           model_name |-> model_name, version |-> model_version]

\* C13: a path whose last segment is not the numeral of a non-negative integer
\* (non-numeric, or empty after a trailing separator) makes path resolution
\* fail with ValueError, and no base path, model name or version comes out.
\* The ValueError carries the directory-structure message when the segment is
\* empty or has a character that is no digit, and is the one int() raises when
\* every character is a digit and one of them is not a decimal digit.
C13_InvalidPathRejected ==
  (ctor # "new" /\ ~IsNonNegativeInteger(LastSegment(serving_model_path)))
  => LET seg == LastSegment(serving_model_path)
     IN  /\ ctor \in PathValueErrors
         /\ ctor = "ValueError_model_path"
              <=> (seg = <<>> \/ \E i \in 1..Len(seg) : ~IsDigitChar(seg[i]))
         /\ ~ParseModelPath(serving_model_path).ok
         /\ model_base_path = NoString
         /\ model_name = NoString
         /\ version_path = NoString

C13_Witness ==
  /\ ctor = "ValueError_model_path"
  /\ serving_model_path = <<"m", "/", "m", "/", "m">>
  /\ model_name = NoString

\* C14: once the path has parsed, construction succeeds exactly when the
\* parsed model name equals the configured one, whatever the other arguments;
\* a mismatch ends in the model-name ValueError with no field set, so every
\* constructed runner has equal names.
C14_NameMismatchRejected ==
  /\ (ctor # "new" /\ ParseModelPath(serving_model_path).ok) =>
       IF ParseModelPath(serving_model_path).model_name = spec_model_name
         THEN ctor = "ok"
         ELSE /\ ctor = "ValueError_model_name"
              /\ model_base_path = NoString
              /\ model_name = NoString
  /\ ctor = "ok" => model_name = spec_model_name

C14_Witness ==
  /\ ctor = "ValueError_model_name"
  /\ serving_model_path = <<"/", "m", "m", "/", "1">>
  /\ spec_model_name = <<"m">>
  /\ binary_kind = "UnsupportedBinary"

\* C15: every run request was built in the mode decided by the existence of
\* the versioned directory base/name/version at that Start(): local-mount mode
\* with host model path base/name when it exists, base-path mode with base_path
\* when it does not; the port in the parameters is the port of the endpoint
\* that Start() stored; and a Start() issues one run request (one mode) when it
\* gets that far and none otherwise.
C15_ModeFromVersionDir ==
  [][ /\ \A i \in 1..Len(engine_runs') :
           LET run == engine_runs'[i]
           IN  /\ run.probe.path =
                    model_base_path \o <<"/">> \o model_name \o <<"/">> \o Str(model_version)
               /\ run.probe.exists =>
                    /\ run.params.mode = "host_model_path"
                    /\ run.params.path = model_base_path \o <<"/">> \o model_name
               /\ ~run.probe.exists =>
                    /\ run.params.mode = "model_base_path"
                    /\ run.params.path = model_base_path
      /\ Len(engine_runs') > 0 =>
           endpoint'.port = engine_runs'[Len(engine_runs')].params.host_port
      /\ Called("Start") =>
           Len(engine_runs') =
             Len(engine_runs) + (IF result' \in {"ok", "APIError"} THEN 1 ELSE 0)
    ]_vars

C15_Witness ==
  /\ Len(engine_runs) = 2
  /\ engine_runs[1].probe.exists /\ engine_runs[1].params.mode = "host_model_path"
  /\ engine_runs[1].params.path = <<"b", "/", "m">>
  /\ ~engine_runs[2].probe.exists /\ engine_runs[2].params.mode = "model_base_path"
  /\ engine_runs[2].params.path = <<"b">>
  /\ engine_runs[2].params.host_port = 2 /\ endpoint.port = 2

\* C17: every WaitUntilRunning call that has entered its loop ends (with a
\* return, JobAborted, DeadlineExceeded or the engine's error), whatever the
\* engine reports, as long as each reload returns and each sleep ends.
C17_WaitTerminates ==
  (op = "WaitUntilRunning" /\ pc # "idle")
    ~> (op = "WaitUntilRunning" /\ pc = "idle"
        /\ result \in {"ok", "JobAborted", "DeadlineExceeded", "APIError"})

C17_Witness ==
  /\ WaitDone /\ result = "DeadlineExceeded"
  /\ observed = <<"created", "created", "created">>
  /\ sleeps = 3

\* C18: among all run requests the engine ever received from this runner, at
\* most one succeeded, whatever mix of Start (failed, retried, after Stop),
\* WaitUntilRunning, GetEndpoint and Stop calls was made.
C18_AtMostOneContainer ==
  Cardinality({i \in 1..Len(engine_runs) : engine_runs[i].ok}) <= 1

C18_Witness ==
  /\ Len(engine_runs) = 2
  /\ ~engine_runs[1].ok /\ engine_runs[2].ok
  /\ engine_stops = 1
  /\ op = "Start" /\ result = "AssertionError"

\* C19: whenever the loop test of WaitUntilRunning on a started runner finds
\* now >= deadline (at entry, or after a sleep), the call ends right there with
\* DeadlineExceeded: no refresh and no sleep is added; when that happens at
\* entry the call has made zero refreshes and zero sleeps.
C19_NoRefreshAfterDeadline ==
  [][ (pc = "loop" /\ now >= deadline)
        => /\ pc' = "idle"
           /\ result' = "DeadlineExceeded"
           /\ observed' = observed
           /\ sleeps' = sleeps
           /\ (result = "pending" /\ sleeps = 0 => observed' = <<>>) ]_vars

C19_Witness ==
  /\ WaitDone /\ result = "DeadlineExceeded"
  /\ observed = <<>> /\ sleeps = 0
  /\ container # None
  /\ now = deadline /\ deadline > 0

\* C20: while the runner holds a handle, its endpoint is localhost:<p> with p
\* the host port of the run request that produced the handle; a successful
\* GetEndpoint() returns exactly that and changes nothing else; and
\* WaitUntilRunning and Stop steps leave the endpoint as it was.
C20_EndpointMatchesRun ==
  [][ /\ container' # None =>
           endpoint' = [kind |-> "str", host |-> "localhost",
                        port |-> engine_runs'[container'.id].params.host_port]
      /\ Called("GetEndpoint") =>
           /\ (container # None => result' = "ok" /\ returned' = endpoint)
           /\ UNCHANGED <<container, endpoint, docker_closed, engine_runs,
                          engine_stops, now>>
      /\ op' \in {"WaitUntilRunning", "Stop"} => endpoint' = endpoint
    ]_vars

C20_Witness ==
  /\ op = "GetEndpoint" /\ result = "ok"
  /\ container # None
  /\ engine_stops = 1
  /\ Len(engine_runs) = 1
  /\ engine_runs[1].params.host_port = 2
  /\ returned = [kind |-> "str", host |-> "localhost", port |-> 2]

====
